---- MODULE Spec2Model ----
(***************************************************************************)
(* Model of stripe/functions/index.js: four event-triggered handlers       *)
(* (createStripeCharge, createStripeCustomer, addPaymentSource,            *)
(* cleanupUser) and the helpers reportError and userFacingMessage.         *)
(*                                                                         *)
(* Every handler invocation is a record in `inv`; it advances one step per *)
(* await point (store read, provider call, store write, log write), and    *)
(* every remote call may succeed or fail.  JavaScript values are modelled  *)
(* as strings, objects as functions from field names to values; a field    *)
(* that is not in the DOMAIN of an object reads as undefined.              *)
(***************************************************************************)
EXTENDS Integers, Sequences, FiniteSets, TLC

\* ------------------------------------------------------------------ bounds
MaxInvocations == 2

\* ------------------------------------------------------------- value sets
NULL == "null"
UNDEFINED == "undefined"
Users == {"u1"}
ChargeIds == {"req1"}
PushIds == {"src1"}
Tokens == {"tok_1"}
Amounts == {"500"}
ConfigCurrencies == {UNDEFINED, "EUR"}
CustomerIds == <<"cus_1", "cus_2", "cus_3", "cus_4", "cus_5", "cus_6">>

\* ---------------------------------------------------------------- objects
EmptyObj == <<>>
Has(o, f) == f \in DOMAIN o
Get(o, f) == IF f \in DOMAIN o THEN o[f] ELSE UNDEFINED
Truthy(x) == x \notin {UNDEFINED, NULL, ""}
Without(o, f) ==
  IF DOMAIN o \ {f} = {} THEN EmptyObj ELSE [g \in DOMAIN o \ {f} |-> o[g]]

\* ----------------------------------------------------------------- errors
NoError == [type |-> UNDEFINED, message |-> ""]
StoreError == [type |-> UNDEFINED, message |-> "store: internal failure detail"]
CardError == [type |-> "card_error", message |-> "Your card was declined"]
ConnectionError == [type |-> UNDEFINED, message |-> "stripe: internal failure detail"]
ProviderErrors == {CardError, ConnectionError}
SinkError == [type |-> UNDEFINED, message |-> "logging: write failed"]
TypeError == [type |-> UNDEFINED, message |-> "Cannot read property 'customer_id' of null"]

GenericMessage == "An error occurred, developers have been alerted"

userFacingMessage_NoSanitize(error) == error.message

userFacingMessage(error) ==
  IF Truthy(error.type) THEN error.message ELSE GenericMessage

VARIABLES
  config,   \* functions.config().stripe.currency
  auth,     \* auth[u]: "none", "active" or "deleted"
  db,       \* db[u]: the node /stripe_customers/u
  stripe,   \* the payment provider: customers and charges it has created
  inv       \* the handler invocations delivered so far

vars == <<config, auth, db, stripe, inv>>

currency_Unset == config

currency == IF Truthy(config) THEN config ELSE "USD"

\* ------------------------------------------------------------------ store
EmptyNode ==
  [customer_id |-> NULL,
   charges |-> [c \in ChargeIds |-> EmptyObj],
   sources |-> [s \in PushIds |-> EmptyObj]]

\* snapshot.val() of /stripe_customers/u: null when nothing is stored there
NodeVal(u) == IF db[u] = EmptyNode THEN NULL ELSE "node"

\* ----------------------------------------------------------- invocations
Running(i) == inv[i].pc \notin {"resolved", "rejected"}

NewInvocation(fn, u, id, val, pc, event) ==
  [fn |-> fn, userId |-> u, id |-> id, val |-> val, pc |-> pc,
   event |-> event, cause |-> 0, customer |-> NULL, error |-> NoError,
   response |-> EmptyObj, thrown |-> NoError, calls |-> <<>>]

Deliver(fn, u, id, val, pc) ==
  /\ Len(inv) < MaxInvocations
  /\ inv' = Append(inv, NewInvocation(fn, u, id, val, pc, Len(inv) + 1))

Call(i, c) == Append(inv[i].calls, c)

Init ==
  /\ config \in ConfigCurrencies
  /\ auth = [u \in Users |-> "none"]
  /\ db = [u \in Users |-> EmptyNode]
  /\ stripe = [customers |-> {}, created |-> 0, charges |-> <<>>]
  /\ inv = <<>>

\* --------------------------------------------------------------- provider
\* stripe.charges.create(charge, {idempotency_key}): the charge the provider
\* answers with, and the provider's state after the call
ChargeObject(charge) ==
  IF Truthy(Get(charge, "source"))
    THEN [object |-> "charge", amount |-> charge.amount,
          currency |-> charge.currency, customer |-> charge.customer,
          source |-> charge.source]
    ELSE [object |-> "charge", amount |-> charge.amount,
          currency |-> charge.currency, customer |-> charge.customer]

KnownKey(key) ==
  /\ Truthy(key)
  /\ \E n \in DOMAIN stripe.charges : stripe.charges[n].idempotency_key = key

StoredCharge(key) ==
  stripe.charges[CHOOSE n \in DOMAIN stripe.charges :
                   stripe.charges[n].idempotency_key = key].charge

ChargesCreateResponse(charge, key) ==
  IF KnownKey(key) THEN StoredCharge(key) ELSE ChargeObject(charge)

ChargesCreate(charge, key) ==
  IF KnownKey(key)
    THEN stripe
    ELSE [stripe EXCEPT !.charges =
            Append(@, [idempotency_key |-> key, charge |-> ChargeObject(charge)])]

\* --------------------------------------------------- createStripeCharge
IdempotencyKey_Omitted(i) == UNDEFINED

IdempotencyKey(i) == inv[i].id

BuildCharge(val, customer) ==
  IF Get(val, "source") # NULL
    THEN [amount |-> Get(val, "amount"), currency |-> currency,
          customer |-> customer, source |-> Get(val, "source")]
    ELSE [amount |-> Get(val, "amount"), currency |-> currency,
          customer |-> customer]

SetChild(o, f, v) == [g \in DOMAIN o \cup {f} |-> IF g = f THEN v ELSE o[g]]

ChargeRead(i) ==
  /\ inv[i].fn = "createStripeCharge"
  /\ inv[i].pc = "read"
  /\ \/ inv' = [inv EXCEPT ![i].customer = db[inv[i].userId].customer_id,
                           ![i].pc = "create",
                           ![i].calls = Call(i, [op |-> "once", ok |-> TRUE])]
     \/ inv' = [inv EXCEPT ![i].error = StoreError,
                           ![i].pc = "catch",
                           ![i].calls = Call(i, [op |-> "once", ok |-> FALSE])]
  /\ UNCHANGED <<config, auth, db, stripe>>

ChargeCreate(i) ==
  /\ inv[i].fn = "createStripeCharge"
  /\ inv[i].pc = "create"
  /\ LET charge == BuildCharge(inv[i].val, inv[i].customer)
         key == IdempotencyKey(i)
     IN \/ /\ stripe' = ChargesCreate(charge, key)
           /\ inv' = [inv EXCEPT ![i].response = ChargesCreateResponse(charge, key),
                                 ![i].pc = "set",
                                 ![i].calls = Call(i, [op |-> "charges.create",
                                     charge |-> charge, idempotency_key |-> key,
                                     ok |-> TRUE])]
        \/ /\ \E e \in ProviderErrors :
                inv' = [inv EXCEPT ![i].error = e,
                                   ![i].pc = "catch",
                                   ![i].calls = Call(i, [op |-> "charges.create",
                                       charge |-> charge, idempotency_key |-> key,
                                       ok |-> FALSE])]
           /\ UNCHANGED stripe
  /\ UNCHANGED <<config, auth, db>>

ChargeSet_WholeNode(i) ==
  /\ inv[i].fn = "createStripeCharge"
  /\ inv[i].pc = "set"
  /\ db' = [db EXCEPT ![inv[i].userId] =
              [EmptyNode EXCEPT !.charges[inv[i].id] = inv[i].response]]
  /\ inv' = [inv EXCEPT ![i].pc = "resolved",
                        ![i].calls = Call(i, [op |-> "set", ok |-> TRUE])]
  /\ UNCHANGED <<config, auth, stripe>>

\* return snap.ref.set(response): the promise is returned without await, so
\* its rejection leaves the try block uncaught
ChargeSet(i) ==
  /\ inv[i].fn = "createStripeCharge"
  /\ inv[i].pc = "set"
  /\ \/ /\ db' = [db EXCEPT ![inv[i].userId].charges[inv[i].id] = inv[i].response]
        /\ inv' = [inv EXCEPT ![i].pc = "resolved",
                              ![i].calls = Call(i, [op |-> "set", ok |-> TRUE])]
     \/ /\ inv' = [inv EXCEPT ![i].pc = "rejected",
                              ![i].thrown = StoreError,
                              ![i].calls = Call(i, [op |-> "set", ok |-> FALSE])]
        /\ UNCHANGED db
  /\ UNCHANGED <<config, auth, stripe>>

ChargeCatch_NoAwait(i) ==
  /\ inv[i].fn = "createStripeCharge"
  /\ inv[i].pc = "catch"
  /\ \/ /\ db' = [db EXCEPT ![inv[i].userId].charges[inv[i].id] =
                     SetChild(@, "error", userFacingMessage(inv[i].error))]
        /\ inv' = [inv EXCEPT ![i].pc = "report",
                              ![i].calls = Call(i, [op |-> "error.set", ok |-> TRUE])]
     \/ /\ inv' = [inv EXCEPT ![i].pc = "report",
                              ![i].calls = Call(i, [op |-> "error.set", ok |-> FALSE])]
        /\ UNCHANGED db
  /\ UNCHANGED <<config, auth, stripe>>

ChargeCatch(i) ==
  /\ inv[i].fn = "createStripeCharge"
  /\ inv[i].pc = "catch"
  /\ \/ /\ db' = [db EXCEPT ![inv[i].userId].charges[inv[i].id] =
                     SetChild(@, "error", userFacingMessage(inv[i].error))]
        /\ inv' = [inv EXCEPT ![i].pc = "report",
                              ![i].calls = Call(i, [op |-> "error.set", ok |-> TRUE])]
     \/ /\ inv' = [inv EXCEPT ![i].pc = "rejected",
                              ![i].thrown = StoreError,
                              ![i].calls = Call(i, [op |-> "error.set", ok |-> FALSE])]
        /\ UNCHANGED db
  /\ UNCHANGED <<config, auth, stripe>>

\* ------------------------------------------------------------ reportError
reportError_Swallow(i) ==
  /\ inv[i].pc = "report"
  /\ \E ok \in BOOLEAN :
       inv' = [inv EXCEPT ![i].pc = "resolved",
                          ![i].calls = Call(i, [op |-> "log.write",
                              message |-> inv[i].error.message,
                              user |-> inv[i].userId, ok |-> ok])]
  /\ UNCHANGED <<config, auth, db, stripe>>

reportError(i) ==
  /\ inv[i].pc = "report"
  /\ \/ inv' = [inv EXCEPT ![i].pc = "resolved",
                           ![i].calls = Call(i, [op |-> "log.write",
                               message |-> inv[i].error.message,
                               user |-> inv[i].userId, ok |-> TRUE])]
     \/ inv' = [inv EXCEPT ![i].pc = "rejected",
                           ![i].thrown = SinkError,
                           ![i].calls = Call(i, [op |-> "log.write",
                               message |-> inv[i].error.message,
                               user |-> inv[i].userId, ok |-> FALSE])]
  /\ UNCHANGED <<config, auth, db, stripe>>

\* ------------------------------------------------- createStripeCustomer
CustomerCreate_Idempotent(i) ==
  /\ inv[i].fn = "createStripeCustomer"
  /\ inv[i].pc = "create"
  /\ LET earlier == {k \in DOMAIN inv : /\ inv[k].fn = "createStripeCustomer"
                                        /\ inv[k].userId = inv[i].userId
                                        /\ Has(inv[k].response, "id")}
         id == IF earlier = {}
                 THEN CustomerIds[stripe.created + 1]
                 ELSE inv[CHOOSE k \in earlier : TRUE].response.id
     IN /\ stripe.created < Len(CustomerIds)
        /\ stripe' = [stripe EXCEPT !.customers = @ \cup {id},
                                    !.created = IF earlier = {} THEN @ + 1 ELSE @]
        /\ inv' = [inv EXCEPT ![i].response =
                                [id |-> id, object |-> "customer",
                                 email |-> inv[i].val],
                              ![i].pc = "set",
                              ![i].calls = Call(i, [op |-> "customers.create",
                                  email |-> inv[i].val, ok |-> TRUE])]
  /\ UNCHANGED <<config, auth, db>>

CustomerCreate_Swallow(i) ==
  /\ inv[i].fn = "createStripeCustomer"
  /\ inv[i].pc = "create"
  /\ inv' = [inv EXCEPT ![i].pc = "resolved",
                        ![i].calls = Call(i, [op |-> "customers.create",
                            email |-> inv[i].val, ok |-> FALSE])]
  /\ UNCHANGED <<config, auth, db, stripe>>

CustomerCreate(i) ==
  /\ inv[i].fn = "createStripeCustomer"
  /\ inv[i].pc = "create"
  /\ \/ /\ stripe.created < Len(CustomerIds)
        /\ LET id == CustomerIds[stripe.created + 1]
           IN /\ stripe' = [stripe EXCEPT !.customers = @ \cup {id},
                                          !.created = @ + 1]
              /\ inv' = [inv EXCEPT ![i].response =
                                      [id |-> id, object |-> "customer",
                                       email |-> inv[i].val],
                                    ![i].pc = "set",
                                    ![i].calls = Call(i, [op |-> "customers.create",
                                        email |-> inv[i].val, ok |-> TRUE])]
     \/ /\ \E e \in ProviderErrors :
             inv' = [inv EXCEPT ![i].pc = "rejected",
                                ![i].thrown = e,
                                ![i].calls = Call(i, [op |-> "customers.create",
                                    email |-> inv[i].val, ok |-> FALSE])]
        /\ UNCHANGED stripe
  /\ UNCHANGED <<config, auth, db>>

CustomerSet(i) ==
  /\ inv[i].fn = "createStripeCustomer"
  /\ inv[i].pc = "set"
  /\ \/ /\ db' = [db EXCEPT ![inv[i].userId].customer_id = inv[i].response.id]
        /\ inv' = [inv EXCEPT ![i].pc = "resolved",
                              ![i].calls = Call(i, [op |-> "set", ok |-> TRUE])]
     \/ /\ inv' = [inv EXCEPT ![i].pc = "rejected",
                              ![i].thrown = StoreError,
                              ![i].calls = Call(i, [op |-> "set", ok |-> FALSE])]
        /\ UNCHANGED db
  /\ UNCHANGED <<config, auth, stripe>>

\* ----------------------------------------------------- addPaymentSource
SourceIsNull_Never(source) == FALSE

SourceIsNull(source) == source = NULL

SourceNull(i) ==
  /\ inv[i].fn = "addPaymentSource"
  /\ inv[i].pc = "start"
  /\ SourceIsNull(inv[i].val)
  /\ inv' = [inv EXCEPT ![i].pc = "resolved"]
  /\ UNCHANGED <<config, auth, db, stripe>>

SourceRead(i) ==
  /\ inv[i].fn = "addPaymentSource"
  /\ inv[i].pc = "start"
  /\ ~SourceIsNull(inv[i].val)
  /\ \/ inv' = [inv EXCEPT ![i].customer = db[inv[i].userId].customer_id,
                           ![i].pc = "create",
                           ![i].calls = Call(i, [op |-> "once", ok |-> TRUE])]
     \/ inv' = [inv EXCEPT ![i].error = StoreError,
                           ![i].pc = "catch",
                           ![i].calls = Call(i, [op |-> "once", ok |-> FALSE])]
  /\ UNCHANGED <<config, auth, db, stripe>>

SourceCreate(i) ==
  /\ inv[i].fn = "addPaymentSource"
  /\ inv[i].pc = "create"
  /\ \/ inv' = [inv EXCEPT ![i].response =
                             [object |-> "card", customer |-> inv[i].customer],
                           ![i].pc = "set",
                           ![i].calls = Call(i, [op |-> "customers.createSource",
                               customer |-> inv[i].customer,
                               source |-> inv[i].val, ok |-> TRUE])]
     \/ \E e \in ProviderErrors :
          inv' = [inv EXCEPT ![i].error = e,
                             ![i].pc = "catch",
                             ![i].calls = Call(i, [op |-> "customers.createSource",
                                 customer |-> inv[i].customer,
                                 source |-> inv[i].val, ok |-> FALSE])]
  /\ UNCHANGED <<config, auth, db, stripe>>

SourceSet_KeepsToken(i) ==
  /\ inv[i].fn = "addPaymentSource"
  /\ inv[i].pc = "set"
  /\ db' = [db EXCEPT ![inv[i].userId].sources[inv[i].id] =
              SetChild(inv[i].response, "token", inv[i].val)]
  /\ LET done == [inv EXCEPT ![i].pc = "resolved",
                             ![i].calls = Call(i, [op |-> "set", ok |-> TRUE])]
     IN inv' = IF Len(inv) < MaxInvocations
                 THEN Append(done,
                        [NewInvocation("addPaymentSource", inv[i].userId,
                             inv[i].id, inv[i].val, "start", Len(inv) + 1)
                           EXCEPT !.cause = i])
                 ELSE done
  /\ UNCHANGED <<config, auth, stripe>>

\* return change.after.ref.parent.set(response): returned without await, as in
\* createStripeCharge.  Replacing the record removes the token, which is a
\* write under the watched path: the trigger fires again with a null value.
SourceSet(i) ==
  /\ inv[i].fn = "addPaymentSource"
  /\ inv[i].pc = "set"
  /\ \/ /\ db' = [db EXCEPT ![inv[i].userId].sources[inv[i].id] = inv[i].response]
        /\ LET done == [inv EXCEPT ![i].pc = "resolved",
                                   ![i].calls = Call(i, [op |-> "set", ok |-> TRUE])]
               fires == /\ Has(db[inv[i].userId].sources[inv[i].id], "token")
                        /\ Len(inv) < MaxInvocations
           IN inv' = IF fires
                       THEN Append(done,
                              [NewInvocation("addPaymentSource", inv[i].userId,
                                   inv[i].id, NULL, "start", Len(inv) + 1)
                                 EXCEPT !.cause = i])
                       ELSE done
     \/ /\ inv' = [inv EXCEPT ![i].pc = "rejected",
                              ![i].thrown = StoreError,
                              ![i].calls = Call(i, [op |-> "set", ok |-> FALSE])]
        /\ UNCHANGED db
  /\ UNCHANGED <<config, auth, stripe>>

SourceCatch_OverToken(i) ==
  /\ inv[i].fn = "addPaymentSource"
  /\ inv[i].pc = "catch"
  /\ db' = [db EXCEPT ![inv[i].userId].sources[inv[i].id] =
              SetChild(@, "token", userFacingMessage(inv[i].error))]
  /\ inv' = [inv EXCEPT ![i].pc = "report",
                        ![i].calls = Call(i, [op |-> "error.set", ok |-> TRUE])]
  /\ UNCHANGED <<config, auth, stripe>>

SourceCatch(i) ==
  /\ inv[i].fn = "addPaymentSource"
  /\ inv[i].pc = "catch"
  /\ \/ /\ db' = [db EXCEPT ![inv[i].userId].sources[inv[i].id] =
                     SetChild(@, "error", userFacingMessage(inv[i].error))]
        /\ inv' = [inv EXCEPT ![i].pc = "report",
                              ![i].calls = Call(i, [op |-> "error.set", ok |-> TRUE])]
     \/ /\ inv' = [inv EXCEPT ![i].pc = "rejected",
                              ![i].thrown = StoreError,
                              ![i].calls = Call(i, [op |-> "error.set", ok |-> FALSE])]
        /\ UNCHANGED db
  /\ UNCHANGED <<config, auth, stripe>>

\* ------------------------------------------------------------ cleanupUser
\* customer.customer_id throws when the snapshot of the account's node is null
CleanupRead(i) ==
  /\ inv[i].fn = "cleanupUser"
  /\ inv[i].pc = "read"
  /\ \/ /\ NodeVal(inv[i].userId) # NULL
        /\ inv' = [inv EXCEPT ![i].customer =
                                IF db[inv[i].userId].customer_id = NULL
                                  THEN UNDEFINED
                                  ELSE db[inv[i].userId].customer_id,
                              ![i].pc = "del",
                              ![i].calls = Call(i, [op |-> "once", ok |-> TRUE])]
     \/ /\ NodeVal(inv[i].userId) = NULL
        /\ inv' = [inv EXCEPT ![i].pc = "rejected",
                              ![i].thrown = TypeError,
                              ![i].calls = Call(i, [op |-> "once", ok |-> TRUE])]
     \/ inv' = [inv EXCEPT ![i].pc = "rejected",
                           ![i].thrown = StoreError,
                           ![i].calls = Call(i, [op |-> "once", ok |-> FALSE])]
  /\ UNCHANGED <<config, auth, db, stripe>>

CleanupDel_Swallow(i) ==
  /\ inv[i].fn = "cleanupUser"
  /\ inv[i].pc = "del"
  /\ \/ /\ inv[i].customer \in stripe.customers
        /\ stripe' = [stripe EXCEPT !.customers = @ \ {inv[i].customer}]
        /\ inv' = [inv EXCEPT ![i].pc = "remove",
                              ![i].calls = Call(i, [op |-> "customers.del",
                                  customer |-> inv[i].customer, ok |-> TRUE])]
     \/ /\ inv' = [inv EXCEPT ![i].pc = "remove",
                              ![i].calls = Call(i, [op |-> "customers.del",
                                  customer |-> inv[i].customer, ok |-> FALSE])]
        /\ UNCHANGED stripe
  /\ UNCHANGED <<config, auth, db>>

CleanupDel(i) ==
  /\ inv[i].fn = "cleanupUser"
  /\ inv[i].pc = "del"
  /\ \/ /\ inv[i].customer \in stripe.customers
        /\ stripe' = [stripe EXCEPT !.customers = @ \ {inv[i].customer}]
        /\ inv' = [inv EXCEPT ![i].pc = "remove",
                              ![i].calls = Call(i, [op |-> "customers.del",
                                  customer |-> inv[i].customer, ok |-> TRUE])]
     \/ /\ \E e \in ProviderErrors :
             inv' = [inv EXCEPT ![i].pc = "rejected",
                                ![i].thrown = e,
                                ![i].calls = Call(i, [op |-> "customers.del",
                                    customer |-> inv[i].customer, ok |-> FALSE])]
        /\ UNCHANGED stripe
  /\ UNCHANGED <<config, auth, db>>

CleanupRemove(i) ==
  /\ inv[i].fn = "cleanupUser"
  /\ inv[i].pc = "remove"
  /\ \/ /\ db' = [db EXCEPT ![inv[i].userId] = EmptyNode]
        /\ inv' = [inv EXCEPT ![i].pc = "resolved",
                              ![i].calls = Call(i, [op |-> "remove", ok |-> TRUE])]
     \/ /\ inv' = [inv EXCEPT ![i].pc = "rejected",
                              ![i].thrown = StoreError,
                              ![i].calls = Call(i, [op |-> "remove", ok |-> FALSE])]
        /\ UNCHANGED db
  /\ UNCHANGED <<config, auth, stripe>>

\* ---------------------------------------------------------------- triggers
ChargeVals ==
  {[amount |-> a] : a \in Amounts}
    \cup {[amount |-> a, source |-> s] : a \in Amounts, s \in Tokens \cup {NULL}}

\* a client writes a ChargeRequest: onCreate of /stripe_customers/u/charges/id
ClientCreateCharge(u, id, val) ==
  /\ db[u].charges[id] = EmptyObj
  /\ db' = [db EXCEPT ![u].charges[id] = val]
  /\ Deliver("createStripeCharge", u, id, val, "read")
  /\ UNCHANGED <<config, auth, stripe>>

\* a client writes or removes a token: onWrite of .../sources/pushId/token
ClientWriteToken(u, pushId, token) ==
  /\ (IF Has(db[u].sources[pushId], "token")
        THEN db[u].sources[pushId].token ELSE NULL) # token
  /\ db' = [db EXCEPT ![u].sources[pushId] =
              IF token = NULL THEN Without(@, "token")
                              ELSE SetChild(@, "token", token)]
  /\ Deliver("addPaymentSource", u, pushId, token, "start")
  /\ UNCHANGED <<config, auth, stripe>>

Email(u) == "a@b.com"

\* functions.auth.user().onCreate / onDelete
AuthCreate(u) ==
  /\ auth[u] = "none"
  /\ auth' = [auth EXCEPT ![u] = "active"]
  /\ Deliver("createStripeCustomer", u, NULL, Email(u), "create")
  /\ UNCHANGED <<config, db, stripe>>

AuthDelete(u) ==
  /\ auth[u] = "active"
  /\ auth' = [auth EXCEPT ![u] = "deleted"]
  /\ Deliver("cleanupUser", u, NULL, NULL, "read")
  /\ UNCHANGED <<config, db, stripe>>

\* the dispatcher delivers at least once: an event may be delivered again
Redeliver(i) ==
  /\ inv[i].event = i
  /\ Len(inv) < MaxInvocations
  /\ inv' = Append(inv, NewInvocation(inv[i].fn, inv[i].userId, inv[i].id,
                inv[i].val,
                CASE inv[i].fn = "createStripeCharge" -> "read"
                  [] inv[i].fn = "createStripeCustomer" -> "create"
                  [] inv[i].fn = "addPaymentSource" -> "start"
                  [] inv[i].fn = "cleanupUser" -> "read",
                i))
  /\ UNCHANGED <<config, auth, db, stripe>>

Next ==
  \/ \E u \in Users, id \in ChargeIds, val \in ChargeVals :
       ClientCreateCharge(u, id, val)
  \/ \E u \in Users, pushId \in PushIds, token \in Tokens \cup {NULL} :
       ClientWriteToken(u, pushId, token)
  \/ \E u \in Users : AuthCreate(u)
  \/ \E u \in Users : AuthDelete(u)
  \/ \E i \in DOMAIN inv : Redeliver(i)
  \/ \E i \in DOMAIN inv : ChargeRead(i)
  \/ \E i \in DOMAIN inv : ChargeCreate(i)
  \/ \E i \in DOMAIN inv : ChargeSet(i)
  \/ \E i \in DOMAIN inv : ChargeCatch(i)
  \/ \E i \in DOMAIN inv : reportError(i)
  \/ \E i \in DOMAIN inv : CustomerCreate(i)
  \/ \E i \in DOMAIN inv : CustomerSet(i)
  \/ \E i \in DOMAIN inv : SourceNull(i)
  \/ \E i \in DOMAIN inv : SourceRead(i)
  \/ \E i \in DOMAIN inv : SourceCreate(i)
  \/ \E i \in DOMAIN inv : SourceSet(i)
  \/ \E i \in DOMAIN inv : SourceCatch(i)
  \/ \E i \in DOMAIN inv : CleanupRead(i)
  \/ \E i \in DOMAIN inv : CleanupDel(i)
  \/ \E i \in DOMAIN inv : CleanupRemove(i)

Spec == Init /\ [][Next]_vars

\* ============================================================== properties
IsCharge(i) == inv[i].fn = "createStripeCharge"
IsSource(i) == inv[i].fn = "addPaymentSource"
IsCustomer(i) == inv[i].fn = "createStripeCustomer"
IsCleanup(i) == inv[i].fn = "cleanupUser"
CallsOf(i, op) == {j \in DOMAIN inv[i].calls : inv[i].calls[j].op = op}
Succeeded(i, op) == \E j \in CallsOf(i, op) : inv[i].calls[j].ok
Failed(i, op) == \E j \in CallsOf(i, op) : ~inv[i].calls[j].ok

\* C1: every createCharge call of every delivery of a ChargeRequest carries the
\* idempotency key equal to the request's charge id, and the provider, which
\* deduplicates by key, holds at most one charge per charge id delivered.
C1_ChargedAtMostOnce ==
  /\ \A i \in DOMAIN inv : \A j \in CallsOf(i, "charges.create") :
       inv[i].calls[j].idempotency_key = inv[i].id
  /\ Len(stripe.charges)
       <= Cardinality({inv[i].id : i \in {k \in DOMAIN inv : IsCharge(k)}})

C1_Witness ==
  \E i, k \in DOMAIN inv :
    /\ i # k /\ IsCharge(i) /\ IsCharge(k)
    /\ inv[i].event = inv[k].event
    /\ Succeeded(i, "charges.create") /\ Succeeded(k, "charges.create")
    /\ Len(stripe.charges) = 1

\* C2: a createStripeCharge run whose customer-id read returned empty makes no
\* createCharge call and, once finished, has written the error field.
C2_NoCallWithoutCustomer ==
  \A i \in DOMAIN inv :
    (IsCharge(i) /\ Succeeded(i, "once") /\ inv[i].customer = NULL)
      => /\ CallsOf(i, "charges.create") = {}
         /\ (~Running(i) => CallsOf(i, "error.set") # {})

\* C3: in createStripeCharge and addPaymentSource every failure of the
\* customer-id read, of the provider call or of the write-back is caught: the
\* handler writes the sanitized message, and when that write succeeds it hands
\* the original error to reportError, and when the report succeeds too the
\* invocation resolves.
C3_FailuresCaught ==
  \A i \in DOMAIN inv :
    ( /\ IsCharge(i) \/ IsSource(i)
      /\ ~Running(i)
      /\ \/ Failed(i, "once") \/ Failed(i, "charges.create")
         \/ Failed(i, "customers.createSource") \/ Failed(i, "set") )
      => /\ CallsOf(i, "error.set") # {}
         /\ Succeeded(i, "error.set") => CallsOf(i, "log.write") # {}
         /\ Succeeded(i, "log.write") => inv[i].pc = "resolved"

\* C4: cleanupUser removes the account's node only after deleteCustomer has
\* succeeded; a deleteCustomer failure is the handler's last call, rejects the
\* invocation with the provider's error, and leaves the store as it was.
C4_State ==
  \A i \in DOMAIN inv : IsCleanup(i) =>
    /\ \A j \in CallsOf(i, "remove") :
         \E k \in CallsOf(i, "customers.del") : k < j /\ inv[i].calls[k].ok
    /\ \A j \in CallsOf(i, "customers.del") :
         ~inv[i].calls[j].ok =>
           /\ j = Len(inv[i].calls)
           /\ inv[i].pc = "rejected"
           /\ inv[i].thrown \in ProviderErrors

C4_Step ==
  \A i \in DOMAIN inv :
    (IsCleanup(i) /\ inv[i].pc = "del" /\ inv'[i].pc = "rejected") => db' = db

\* C4: in every state C4_State holds, and the step in which deleteCustomer fails
\* (C4_Step) rejects the invocation and leaves the store unchanged.
C4_DeleteFailurePropagates == [](C4_State) /\ [][C4_Step]_vars

C4_Witness ==
  \E i \in DOMAIN inv :
    /\ IsCleanup(i) /\ Failed(i, "customers.del")
    /\ inv[i].pc = "rejected"
    /\ db[inv[i].userId].customer_id # NULL

\* C5: a customer_id that is set is never changed to a different value; the
\* only transition on it is its removal.
C5_CustomerIdImmutable ==
  [][\A u \in Users :
       db[u].customer_id # NULL
         => db'[u].customer_id \in {db[u].customer_id, NULL}]_vars

\* C6: addPaymentSource invoked with a null token makes no provider call and no
\* store read or write, and resolves.
C6_NullTokenNoop ==
  \A i \in DOMAIN inv :
    (IsSource(i) /\ inv[i].val = NULL)
      => inv[i].calls = <<>> /\ inv[i].pc \in {"start", "resolved"}

C6_Witness ==
  \E i \in DOMAIN inv :
    IsSource(i) /\ inv[i].val = NULL /\ inv[i].pc = "resolved"

\* C7: the charge instruction has no source field when the request's source is
\* null or not supplied, and has source equal to the request's token otherwise.
C7_SourceOnlyWhenGiven ==
  \A i \in DOMAIN inv : \A j \in CallsOf(i, "charges.create") :
    LET charge == inv[i].calls[j].charge
    IN IF Get(inv[i].val, "source") \in {NULL, UNDEFINED}
         THEN ~Has(charge, "source")
         ELSE Has(charge, "source") /\ charge.source = inv[i].val.source

\* C8: the provider receives the request's amount, the process-wide currency
\* ("USD" unless configured), the customer id read from the store and the
\* request's source, under the idempotency key id; the customer id read is the
\* one stored, and the successful write-back makes the record at the request's
\* path exactly the provider's response.
C8_State ==
  \A i \in DOMAIN inv : \A j \in CallsOf(i, "charges.create") :
    LET c == inv[i].calls[j]
    IN /\ c.idempotency_key = inv[i].id
       /\ c.charge.amount = inv[i].val.amount
       /\ c.charge.currency = (IF config = UNDEFINED THEN "USD" ELSE config)
       /\ c.charge.customer = inv[i].customer
       /\ Get(inv[i].val, "source") \in Tokens
            => Get(c.charge, "source") = inv[i].val.source
       /\ c.ok => \E n \in DOMAIN stripe.charges :
                    /\ stripe.charges[n].idempotency_key = inv[i].id
                    /\ stripe.charges[n].charge = inv[i].response

C8_Step ==
  \A i \in DOMAIN inv : IsCharge(i) =>
    /\ (inv[i].pc = "read" /\ inv'[i].pc = "create")
         => inv'[i].customer = db[inv[i].userId].customer_id
    /\ (inv[i].pc = "set" /\ inv'[i].pc = "resolved")
         => db'[inv[i].userId].charges[inv[i].id] = inv[i].response

\* C8: every createCharge call carries the request's amount, source and id, the
\* configured currency and the stored customer id (C8_State), and the read and
\* write-back steps take the stored id and store the provider's response (C8_Step).
C8_EndToEnd == [](C8_State) /\ [][C8_Step]_vars

C8_Witness ==
  \E i, k \in DOMAIN inv :
    /\ IsCustomer(k) /\ inv[k].pc = "resolved"
    /\ IsCharge(i) /\ inv[i].pc = "resolved"
    /\ inv[i].customer = inv[k].response.id
    /\ inv[i].val = [amount |-> "500", source |-> "tok_1"]
    /\ config = UNDEFINED
    /\ db[inv[i].userId].charges[inv[i].id] =
         [object |-> "charge", amount |-> "500", currency |-> "USD",
          customer |-> "cus_1", source |-> "tok_1"]

\* C9: the error field written by createStripeCharge or addPaymentSource is the
\* error's message when the error has a type and the fixed generic string when
\* it has none; no error field holds the message of an untyped error.
Untyped == {StoreError, ConnectionError, SinkError, TypeError}

ErrorFields ==
  UNION {
    {db[u].charges[c].error : c \in {x \in ChargeIds : Has(db[u].charges[x], "error")}}
      \cup
    {db[u].sources[p].error : p \in {x \in PushIds : Has(db[u].sources[x], "error")}}
    : u \in Users}

C9_State ==
  \A m \in ErrorFields :
    /\ m \in {"An error occurred, developers have been alerted",
              "Your card was declined"}
    /\ m \notin {e.message : e \in Untyped}

C9_Step ==
  \A i \in DOMAIN inv :
    (inv[i].pc = "catch" /\ inv'[i].pc = "report") =>
      LET written == IF IsCharge(i)
                       THEN db'[inv[i].userId].charges[inv[i].id].error
                       ELSE db'[inv[i].userId].sources[inv[i].id].error
      IN written = IF inv[i].error.type = UNDEFINED
                     THEN "An error occurred, developers have been alerted"
                     ELSE inv[i].error.message

\* C9: every error field in the store is a sanitized message (C9_State), and the
\* step that writes it writes the typed error's message or the generic string
\* (C9_Step).
C9_Sanitized == [](C9_State) /\ [][C9_Step]_vars

C9_Witness ==
  \E u \in Users, c \in ChargeIds, p \in PushIds :
    /\ Get(db[u].charges[c], "error") = "Your card was declined"
    /\ Get(db[u].sources[p], "error")
         = "An error occurred, developers have been alerted"
    /\ \E i \in DOMAIN inv : IsSource(i) /\ inv[i].error \in Untyped
                             /\ Succeeded(i, "error.set")

\* C10: every delivery of an account-creation event makes one createCustomer
\* call, without an idempotency key; every successful call creates a new
\* provider customer, so N deliveries create N customers; a delivery whose
\* store write succeeds stores the id it received at customer_id.
C10_State ==
  /\ \A i \in DOMAIN inv : IsCustomer(i) =>
       /\ Cardinality(CallsOf(i, "customers.create"))
            = (IF inv[i].pc = "create" THEN 0 ELSE 1)
       /\ \A j \in CallsOf(i, "customers.create") :
            ~Has(inv[i].calls[j], "idempotency_key")
  /\ LET created == {i \in DOMAIN inv : IsCustomer(i) /\ Succeeded(i, "customers.create")}
     IN /\ stripe.created = Cardinality(created)
        /\ Cardinality({inv[i].response.id : i \in created}) = Cardinality(created)

C10_Step ==
  \A i \in DOMAIN inv :
    (IsCustomer(i) /\ inv[i].pc = "set" /\ inv'[i].pc = "resolved")
      => db'[inv[i].userId].customer_id = inv[i].response.id

\* C10: one createCustomer call per delivery, one new provider customer per
\* successful call (C10_State); the store write stores the id received (C10_Step).
C10_OneCustomerPerDelivery == [](C10_State) /\ [][C10_Step]_vars

C10_Witness ==
  \E i, k \in DOMAIN inv :
    /\ i < k /\ IsCustomer(i) /\ IsCustomer(k)
    /\ inv[i].event = inv[k].event
    /\ inv[i].pc = "resolved" /\ inv[k].pc = "resolved"
    /\ stripe.created = 2
    /\ inv[i].response.id # inv[k].response.id

\* C11: reportError writes exactly one entry to the log per call; the
\* invocation that returned it resolves when the write is acknowledged and is
\* rejected with the sink's error when the write fails.
C11_State ==
  \A i \in DOMAIN inv :
    /\ Cardinality(CallsOf(i, "log.write"))
         = (IF Succeeded(i, "error.set") /\ inv[i].pc # "report" THEN 1 ELSE 0)
    /\ \A j \in CallsOf(i, "log.write") :
         /\ IsCharge(i) \/ IsSource(i)
         /\ j = Len(inv[i].calls)
         /\ inv[i].calls[j].message = inv[i].error.message
         /\ inv[i].calls[j].ok => inv[i].pc = "resolved" /\ inv[i].thrown = NoError
         /\ ~inv[i].calls[j].ok
              => inv[i].pc = "rejected"
                 /\ inv[i].thrown = [type |-> UNDEFINED,
                                     message |-> "logging: write failed"]

C11_Step ==
  \A i \in DOMAIN inv :
    (inv[i].pc = "report" /\ inv'[i].pc # "report")
      => Len(inv'[i].calls) = Len(inv[i].calls) + 1 /\ db' = db

\* C11: in every state C11_State holds, and the step that ends a report
\* (C11_Step) makes exactly one log write.
C11_ReportFollowsSink == [](C11_State) /\ [][C11_Step]_vars

C11_Witness ==
  \E i, k \in DOMAIN inv :
    /\ IsCharge(i) /\ Failed(i, "log.write") /\ inv[i].pc = "rejected"
    /\ IsSource(k) /\ Succeeded(k, "log.write") /\ inv[k].pc = "resolved"

\* C12: createStripeCustomer and cleanupUser catch nothing: a failed call is
\* the invocation's last call and rejects it with the call's error; after a
\* failed createCustomer nothing is written to the store.
C12_State ==
  \A i \in DOMAIN inv : (IsCustomer(i) \/ IsCleanup(i)) =>
    /\ \A j \in DOMAIN inv[i].calls :
         ~inv[i].calls[j].ok =>
           /\ j = Len(inv[i].calls)
           /\ inv[i].pc = "rejected"
           /\ inv[i].thrown
                \in (IF inv[i].calls[j].op \in {"customers.create", "customers.del"}
                       THEN ProviderErrors ELSE {StoreError})
    /\ (IsCustomer(i) /\ Failed(i, "customers.create"))
         => CallsOf(i, "set") = {}
    /\ inv[i].pc = "resolved" => \A j \in DOMAIN inv[i].calls : inv[i].calls[j].ok

C12_Step ==
  \A i \in DOMAIN inv :
    (IsCustomer(i) /\ inv[i].pc = "create" /\ inv'[i].pc = "rejected") => db' = db

\* C12: in every state C12_State holds, and a createCustomer step that fails
\* (C12_Step) leaves the store unchanged.
C12_NoLocalCatch == [](C12_State) /\ [][C12_Step]_vars

C12_Witness ==
  \E i, k \in DOMAIN inv :
    /\ IsCustomer(i) /\ Failed(i, "customers.create") /\ inv[i].pc = "rejected"
    /\ db[inv[i].userId].customer_id = NULL
    /\ IsCleanup(k) /\ inv[k].pc = "rejected" /\ inv[k].thrown = StoreError

C14_State ==
  \A i \in DOMAIN inv : IsSource(i) =>
    /\ (Failed(i, "once") \/ Failed(i, "customers.createSource"))
         => /\ inv[i].pc # "catch" => CallsOf(i, "error.set") # {}
            /\ CallsOf(i, "set") = {}
    /\ Succeeded(i, "error.set")
         => inv[i].pc = "report" \/ CallsOf(i, "log.write") # {}
    /\ CallsOf(i, "set") # {} => Succeeded(i, "customers.createSource")

C14_Step ==
  \A i \in DOMAIN inv : IsSource(i) =>
    LET old == db[inv[i].userId].sources[inv[i].id]
        new == db'[inv[i].userId].sources[inv[i].id]
    IN /\ (inv[i].pc = "set" /\ inv'[i].pc = "resolved")
            => /\ new = [object |-> "card", customer |-> inv[i].customer]
               /\ ~Has(new, "token")
               /\ db'[inv[i].userId].customer_id = db[inv[i].userId].customer_id
               /\ db'[inv[i].userId].charges = db[inv[i].userId].charges
       /\ (inv[i].pc = "catch" /\ inv'[i].pc = "report")
            => /\ DOMAIN new = DOMAIN old \cup {"error"}
               /\ \A f \in DOMAIN old \ {"error"} : new[f] = old[f]
               /\ new.error = IF inv[i].error.type = UNDEFINED
                                THEN "An error occurred, developers have been alerted"
                                ELSE inv[i].error.message
               /\ db'[inv[i].userId].customer_id = db[inv[i].userId].customer_id
               /\ db'[inv[i].userId].charges = db[inv[i].userId].charges

\* C14: in every state C14_State holds, and the two write steps of
\* addPaymentSource write where C14_Step says.
C14_SourceWrites == [](C14_State) /\ [][C14_Step]_vars

C14_Witness ==
  \E i \in DOMAIN inv :
    /\ IsSource(i) /\ Failed(i, "customers.createSource")
    /\ Succeeded(i, "error.set") /\ CallsOf(i, "log.write") # {}
    /\ Get(db[inv[i].userId].sources[inv[i].id], "token") = inv[i].val
    /\ Get(db[inv[i].userId].sources[inv[i].id], "error") = "Your card was declined"

\* ------------------------------------------------------------ two accounts
\* Charge requests of two accounts served by the same process and the same
\* provider account.
Accounts == {"u1", "u2"}

InitAccounts ==
  /\ config \in ConfigCurrencies
  /\ auth = [u \in Accounts |-> "none"]
  /\ db = [u \in Accounts |-> EmptyNode]
  /\ stripe = [customers |-> {}, created |-> 0, charges |-> <<>>]
  /\ inv = <<>>

NextAccounts ==
  \/ \E u \in Accounts, id \in ChargeIds, val \in ChargeVals :
       ClientCreateCharge(u, id, val)
  \/ \E i \in DOMAIN inv : Redeliver(i)
  \/ \E i \in DOMAIN inv : ChargeRead(i)
  \/ \E i \in DOMAIN inv : ChargeCreate(i)
  \/ \E i \in DOMAIN inv : ChargeSet(i)
  \/ \E i \in DOMAIN inv : ChargeCatch(i)
  \/ \E i \in DOMAIN inv : reportError(i)

SpecAccounts == InitAccounts /\ [][NextAccounts]_vars

\* C15: what a handler invocation for account A stores under A's record is
\* determined by A's own events and data: the charge that createStripeCharge
\* writes back at A's request is the charge for A's own instruction (A's
\* amount and source, A's customer id), whatever the other account did.
C15_AccountIsolation ==
  [][\A i \in DOMAIN inv :
       (IsCharge(i) /\ inv[i].pc = "set" /\ inv'[i].pc = "resolved")
         => LET written == db'[inv[i].userId].charges[inv[i].id]
            IN /\ written.amount = inv[i].val.amount
               /\ written.customer = inv[i].customer
               /\ Get(written, "source")
                    = (IF Get(inv[i].val, "source") = NULL
                         THEN UNDEFINED ELSE Get(inv[i].val, "source"))]_vars

\* C16: whenever a ChargeRequest's record holds an error field (written by
\* createStripeCharge, the only writer of that field), the provider has created
\* no charge under that request's id.
C16_ErrorOnlyForFailedCharge ==
  \A u \in Users, id \in ChargeIds :
    Has(db[u].charges[id], "error")
      => ~\E n \in DOMAIN stripe.charges : stripe.charges[n].idempotency_key = id

\* C17: an invocation fired by the write-back of addPaymentSource sees a null
\* token and does nothing, so it fires nothing itself and the chain started by
\* one delivered client token write has at most two invocations; only the
\* success write-back fires, the error write fires nothing and leaves the
\* token; createSource is called at most once per delivered client token
\* write, and never by a fired invocation.
C17_State ==
  \A i \in DOMAIN inv :
    /\ inv[i].cause # 0
         => /\ IsSource(i) /\ inv[i].val = NULL /\ inv[i].calls = <<>>
            /\ inv[i].cause < i
            /\ inv[inv[i].cause].cause = 0
            /\ IsSource(inv[i].cause) /\ Succeeded(inv[i].cause, "set")
            /\ \A k \in DOMAIN inv : inv[k].cause = inv[i].cause => k = i
    /\ IsSource(i) => Cardinality(CallsOf(i, "customers.createSource")) <= 1

C17_Step ==
  \A i \in DOMAIN inv : IsSource(i) =>
    /\ (inv[i].pc = "catch" /\ inv'[i].pc # "catch")
         => /\ Len(inv') = Len(inv)
            /\ Get(db'[inv[i].userId].sources[inv[i].id], "token")
                 = Get(db[inv[i].userId].sources[inv[i].id], "token")
    /\ (inv[i].pc = "set" /\ inv'[i].pc = "resolved")
         => /\ ~Has(db'[inv[i].userId].sources[inv[i].id], "token")
            /\ Len(inv') <= Len(inv) + 1
            /\ Len(inv') = Len(inv) + 1
                 => /\ Has(db[inv[i].userId].sources[inv[i].id], "token")
                    /\ inv'[Len(inv')].val = NULL

InitProvisioned ==
  /\ config \in ConfigCurrencies
  /\ auth = [u \in Users |-> "active"]
  /\ \E c \in {NULL, CustomerIds[1]} :
       /\ db = [u \in Users |-> [EmptyNode EXCEPT !.customer_id = c]]
       /\ stripe = [customers |-> IF c = NULL THEN {} ELSE {c},
                    created |-> IF c = NULL THEN 0 ELSE 1,
                    charges |-> <<>>]
  /\ inv = <<>>

NextProvisioned ==
  \/ \E u \in Users, id \in ChargeIds, val \in ChargeVals :
       ClientCreateCharge(u, id, val)
  \/ \E u \in Users, pushId \in PushIds, token \in Tokens \cup {NULL} :
       ClientWriteToken(u, pushId, token)
  \/ \E u \in Users : AuthDelete(u)
  \/ \E i \in DOMAIN inv : Redeliver(i)
  \/ \E i \in DOMAIN inv : ChargeRead(i)
  \/ \E i \in DOMAIN inv : ChargeCreate(i)
  \/ \E i \in DOMAIN inv : ChargeSet(i)
  \/ \E i \in DOMAIN inv : ChargeCatch(i)
  \/ \E i \in DOMAIN inv : reportError(i)
  \/ \E i \in DOMAIN inv : SourceNull(i)
  \/ \E i \in DOMAIN inv : SourceRead(i)
  \/ \E i \in DOMAIN inv : SourceCreate(i)
  \/ \E i \in DOMAIN inv : SourceSet(i)
  \/ \E i \in DOMAIN inv : SourceCatch(i)
  \/ \E i \in DOMAIN inv : CleanupRead(i)
  \/ \E i \in DOMAIN inv : CleanupDel(i)
  \/ \E i \in DOMAIN inv : CleanupRemove(i)

SpecProvisioned == InitProvisioned /\ [][NextProvisioned]_vars

\* C18: when a cleanupUser invocation of an account has resolved, it was the
\* last invocation delivered for that account, and no invocation of the account
\* is still running, nothing is stored under the account's record.
C18_EmptyAfterCleanup ==
  \A c \in DOMAIN inv :
    (/\ IsCleanup(c) /\ inv[c].pc = "resolved"
     /\ c = Len(inv)
     /\ \A k \in DOMAIN inv : inv[k].userId = inv[c].userId => ~Running(k))
      => db[inv[c].userId] = EmptyNode

\* the record a createStripeCharge or addPaymentSource invocation writes to,
\* in the store d
RecordOf(d, i) ==
  IF inv[i].fn = "createStripeCharge"
    THEN d[inv[i].userId].charges[inv[i].id]
    ELSE d[inv[i].userId].sources[inv[i].id]

\* C19 as stated: whenever a handler is about to call reportError, the error
\* field is present in the store.
C19_PresentAtReport ==
  \A i \in DOMAIN inv :
    inv[i].pc = "report" => Has(RecordOf(db, i), "error")

\* C19: an invocation that reports, or is about to, has made an error write
\* that succeeded, and made it before the report; an invocation whose error
\* write failed never reports and is rejected with the store's error.
C19_State ==
  \A i \in DOMAIN inv : (IsCharge(i) \/ IsSource(i)) =>
    /\ (inv[i].pc = "report" \/ CallsOf(i, "log.write") # {})
         => \E j \in CallsOf(i, "error.set") :
              /\ inv[i].calls[j].ok
              /\ \A k \in CallsOf(i, "log.write") : j < k
    /\ Failed(i, "error.set")
         => /\ CallsOf(i, "log.write") = {}
            /\ inv[i].pc = "rejected"
            /\ inv[i].thrown = StoreError

\* C19: the step that completes the error write leaves the sanitized message in
\* the error field and only then moves on to the report; a failed error write
\* changes nothing in the store; the report, failed or not, leaves the record
\* as it was.
C19_Step ==
  \A i \in DOMAIN inv : (IsCharge(i) \/ IsSource(i)) =>
    /\ (inv[i].pc = "catch" /\ inv'[i].pc = "report")
         => Get(RecordOf(db', i), "error") = userFacingMessage(inv[i].error)
    /\ (inv[i].pc = "catch" /\ inv'[i].pc \notin {"catch", "report"})
         => inv'[i].pc = "rejected" /\ db' = db
    /\ (inv[i].pc = "report" /\ inv'[i].pc # "report")
         => RecordOf(db', i) = RecordOf(db, i)

\* C19: in every state C19_State holds, and the steps of the failure path do
\* what C19_Step says.
C19_ErrorBeforeReport == [](C19_State) /\ [][C19_Step]_vars

C19_Witness ==
  \E i, k \in DOMAIN inv :
    /\ IsCharge(i) /\ Failed(i, "log.write")
    /\ Has(RecordOf(db, i), "error")
    /\ IsSource(k) /\ Failed(k, "error.set") /\ inv[k].pc = "rejected"
    /\ ~Has(RecordOf(db, k), "error")

\* C20: a cleanupUser invocation whose read found no customer_id for the
\* account calls neither customers.del nor remove, and is rejected once it has
\* finished.
C20_NoCallWithoutRecord ==
  \A i \in DOMAIN inv :
    (IsCleanup(i) /\ Succeeded(i, "once") /\ inv[i].customer \in {NULL, UNDEFINED})
      => /\ CallsOf(i, "customers.del") = {}
         /\ CallsOf(i, "remove") = {}
         /\ inv[i].pc \in {"del", "rejected"}

====
